---- MODULE Spec2Model ----
(***************************************************************************)
(* A model of the SimpleHttpService client in its four source versions:    *)
(*   src/src/SimpleHttpService.ts  config object, baseEndpoint required    *)
(*   src/unnamed/part_000          config object, baseEndpoint optional    *)
(*   src/SimpleHttpService.ts      bare baseUrl, verbs take headers        *)
(*   src/unnamed/part_001          bare baseUrl, verbs take requestInit    *)
(* One client is constructed; calls are made on it one after the other.    *)
(* A call builds its request synchronously, suspends awaiting the          *)
(* transport, then awaiting the body, and settles.  rejection is what the  *)
(* transport rejected the current call's request with, and log the steps   *)
(* the current call has taken, in order.                                   *)
(*                                                                         *)
(* JavaScript values are records [t |-> type, v |-> payload]; a string's   *)
(* payload is its text, an object's payload is its canonical JSON text.    *)
(* Paths and URLs are sequences of characters ("http://" is one token).    *)
(* An object literal's absent key and a key holding undefined are the same *)
(* here: no input of the model passes an explicit undefined.               *)
(***************************************************************************)
EXTENDS Integers, Sequences, FiniteSets, TLC

VARIABLES variant, hook, config, pc, call, request, sent, response, outcome,
          rejection, log

vars ==
  <<variant, hook, config, pc, call, request, sent, response, outcome,
    rejection, log>>

\* Longest endpoint string the caller passes.
MaxPathLen == 3

-----------------------------------------------------------------------------
(* The source versions and the classes instantiated.                       *)

V_SrcSrc == "src/src/SimpleHttpService.ts"
V_Part000 == "src/unnamed/part_000"
V_Src == "src/SimpleHttpService.ts"
V_Part001 == "src/unnamed/part_001"

ConfigVariants == {V_SrcSrc, V_Part000}
BareVariants == {V_Src, V_Part001}
Variants == ConfigVariants \cup BareVariants

H_Base == "SimpleHttpService"
H_Protected == "ProtectedService"

-----------------------------------------------------------------------------
(* JavaScript values.                                                      *)

Undefined == [t |-> "undefined", v |-> ""]
Null == [t |-> "null", v |-> "null"]
Str(s) == [t |-> "string", v |-> s]
Obj(json) == [t |-> "object", v |-> json]
Present(x) == x.t # "undefined"

\* The objects the model passes around, by their canonical JSON text.
LoginBody == "{\"username\":\"admin\"}"
LoginSuccess == "{\"accessToken\":\"abc\"}"
NotFoundBody == "{\"error\":\"not found\"}"
JsonObjectTexts == {LoginBody, LoginSuccess, NotFoundBody}

\* The plain strings the model passes around.
KnownStrings == {"raw", "timeout", "TIMEOUT"}

Quote(s) == "\"" \o s \o "\""

\* JSON.stringify: undefined stays undefined, a string is quoted, an object
\* becomes its JSON text.
JSONstringify(x) ==
  CASE x.t = "undefined" -> Undefined
    [] x.t = "string" -> Str(Quote(x.v))
    [] x.t = "null" -> Str("null")
    [] OTHER -> Str(x.v)

\* The SyntaxError JSON.parse throws on text; its message names the text.
SyntaxError(text) == [t |-> "SyntaxError", v |-> "Unexpected token in " \o text]

\* A JSON.parse that yields undefined for text it cannot decode.
JSONparse_Lenient(text) ==
  IF text \in JsonObjectTexts THEN [threw |-> FALSE, value |-> Obj(text)]
  ELSE [threw |-> FALSE, value |-> Undefined]

\* JSON.parse: [threw, value]; value is the parsed value, or the SyntaxError.
JSONparse(text) ==
  IF text \in JsonObjectTexts THEN [threw |-> FALSE, value |-> Obj(text)]
  ELSE IF text = "null" THEN [threw |-> FALSE, value |-> Null]
  ELSE IF \E s \in KnownStrings : Quote(s) = text
    THEN [threw |-> FALSE,
          value |-> Str(CHOOSE s \in KnownStrings : Quote(s) = text)]
  ELSE [threw |-> TRUE, value |-> SyntaxError(text)]

\* String.prototype.toUpperCase on the strings of the model.
toUpperCase(s) == IF s = "timeout" THEN "TIMEOUT" ELSE s

ErrorTypes == {"Error", "TypeError", "SyntaxError"}
instanceofError(e) == e.t \in ErrorTypes

-----------------------------------------------------------------------------
(* Header collections.  A plain object keeps its property names as written; *)
(* a Headers instance keeps them lower-cased.  The header names of the      *)
(* model differ in more than case, so no two of them collide in a Headers.  *)

NoHeaders == [t |-> "undefined", h |-> <<>>]
PlainHeaders(h) == [t |-> "object", h |-> h]
HeadersInstance(h) == [t |-> "Headers", h |-> h]

ContentType == "Content-Type"
Authorization == "Authorization"
XTrace == "X-Trace"
ApplicationJson == "application/json"
TextPlain == "text/plain"
BearerToken == "Bearer X"

LowerName(n) ==
  CASE n = ContentType -> "content-type"
    [] n = Authorization -> "authorization"
    [] n = XTrace -> "x-trace"
    [] OTHER -> n

\* { ...a, ...b }: b's properties win.
Assign(a, b) ==
  [k \in (DOMAIN a) \cup (DOMAIN b) |-> IF k \in DOMAIN b THEN b[k] ELSE a[k]]

\* ...headers inside an object literal: the own enumerable properties, which
\* undefined and a Headers instance do not have.
SpreadEntries(x) == IF x.t = "object" THEN x.h ELSE <<>>

\* new Headers(init)
NewHeaders(x) ==
  CASE x.t = "undefined" -> HeadersInstance(<<>>)
    [] x.t = "Headers" -> x
    [] OTHER ->
       HeadersInstance(
         [k \in {LowerName(n) : n \in DOMAIN x.h} |->
            x.h[CHOOSE n \in DOMAIN x.h : LowerName(n) = k]])

\* Headers.prototype.set(name, value)
HeadersSet(hd, name, value) ==
  HeadersInstance(Assign(hd.h, LowerName(name) :> value))

DefaultContentType == ContentType :> ApplicationJson

handleHeadersSrcSrc(headers) ==
  NewHeaders(PlainHeaders(Assign(DefaultContentType, SpreadEntries(headers))))

handleHeadersPart000(headers) ==
  HeadersSet(NewHeaders(headers), ContentType, ApplicationJson)

handleHeadersSrc(headers) ==
  PlainHeaders(Assign(DefaultContentType, SpreadEntries(headers)))

handleHeadersPart001(headers) ==
  NewHeaders(PlainHeaders(Assign(DefaultContentType, SpreadEntries(headers))))

\* The README's subclass override.
handleHeadersProtected(headers) ==
  PlainHeaders(Assign((Authorization :> BearerToken) @@ DefaultContentType,
                      SpreadEntries(headers)))

\* this.handleHeaders(...) as the fetch method of version v calls it on an
\* instance of class hk.
handleHeaders(v, hk, headers) ==
  CASE hk = H_Protected -> handleHeadersProtected(headers)
    [] v = V_SrcSrc -> handleHeadersSrcSrc(headers)
    [] v = V_Part000 -> handleHeadersPart000(headers)
    [] v = V_Src -> handleHeadersSrc(headers)
    [] OTHER -> handleHeadersPart001(headers)

-----------------------------------------------------------------------------
(* Paths and URLs.                                                         *)

Slash == "/"
PathChars == {Slash, "a"}
Paths == UNION {[1..n -> PathChars] : n \in 0..MaxPathLen}

endsWith(s, c) == Len(s) > 0 /\ s[Len(s)] = c
startsWith(s, c) == Len(s) > 0 /\ s[1] = c
\* s.slice(0, -1) and s.slice(1)
sliceEnd(s) == SubSeq(s, 1, Len(s) - 1)
sliceStart(s) == SubSeq(s, 2, Len(s))

\* A normalization that drops the first and the last character, whatever
\* they are.
removeSlashes_Unconditional(path) == SubSeq(path, 2, Len(path) - 1)

removeSlashes(path) ==
  LET p1 == IF endsWith(path, Slash) THEN sliceEnd(path) ELSE path
      p2 == IF startsWith(p1, Slash) THEN sliceStart(p1) ELSE p1
  IN p2

Scheme == "http://"
InvalidURL == [valid |-> FALSE, host |-> <<>>, path |-> <<>>]

\* Index of the first "/" of s, or Len(s) + 1.
FirstSlash(s) ==
  IF \E i \in 1..Len(s) : s[i] = Slash
    THEN CHOOSE i \in 1..Len(s) :
           s[i] = Slash /\ \A j \in 1..(i - 1) : s[j] # Slash
    ELSE Len(s) + 1

\* Index of the first character of s that is not "/", or Len(s) + 1.
FirstNonSlash(s) ==
  IF \E i \in 1..Len(s) : s[i] # Slash
    THEN CHOOSE i \in 1..Len(s) :
           s[i] # Slash /\ \A j \in 1..(i - 1) : s[j] = Slash
    ELSE Len(s) + 1

\* Host and path of the text after the scheme: the host runs to the first
\* "/", an empty host is a failure, an empty path is "/".
ParseAuthority(rest) ==
  LET i == FirstSlash(rest)
      host == SubSeq(rest, 1, i - 1)
      path == SubSeq(rest, i, Len(rest))
  IN IF host = <<>> THEN InvalidURL
     ELSE [valid |-> TRUE, host |-> host,
           path |-> IF path = <<>> THEN <<Slash>> ELSE path]

\* An absolute http URL string.
ParseAbsolute(s) ==
  IF Len(s) = 0 \/ s[1] # Scheme THEN InvalidURL ELSE ParseAuthority(Tail(s))

\* The base path up to and including its last "/".
Directory(path) ==
  SubSeq(path, 1, CHOOSE i \in 1..Len(path) :
                    path[i] = Slash /\ \A j \in (i + 1)..Len(path) : path[j] # Slash)

\* new URL(url, base) for a url without a scheme: "//..." names a new host
\* (further slashes are skipped), "/..." is an absolute path, anything else
\* is relative to the base's directory.  Empty segments are kept.  Without
\* a base (undefined) a url without a scheme does not parse.
NewURL(url, base) ==
  LET b == IF Present(base) THEN ParseAbsolute(base.v) ELSE InvalidURL
  IN IF ~b.valid THEN InvalidURL
     ELSE IF Len(url) >= 2 /\ url[1] = Slash /\ url[2] = Slash
       THEN ParseAuthority(SubSeq(url, FirstNonSlash(url), Len(url)))
     ELSE IF startsWith(url, Slash)
       THEN [valid |-> TRUE, host |-> b.host, path |-> url]
     ELSE [valid |-> TRUE, host |-> b.host, path |-> Directory(b.path) \o url]

\* config.baseEndpoint || ''
OrEmpty(x) == IF x.t = "undefined" THEN <<>> ELSE x.v

fullEndpointSrcSrc(cfg, endpoint) ==
  LET be0 == cfg.baseEndpoint.v
      be1 == IF endsWith(be0, Slash) THEN sliceEnd(be0) ELSE be0
      be == IF startsWith(be1, Slash) THEN sliceStart(be1) ELSE be1
      ep1 == IF endsWith(endpoint, Slash) THEN sliceEnd(endpoint) ELSE endpoint
      ep == IF startsWith(ep1, Slash) THEN sliceStart(ep1) ELSE ep1
  IN NewURL(be \o <<Slash>> \o ep, cfg.baseUrl)

fullEndpointPart000(cfg, endpoint) ==
  LET baseEndpoint == removeSlashes(OrEmpty(cfg.baseEndpoint))
      url == baseEndpoint \o <<Slash>> \o removeSlashes(endpoint)
  IN NewURL(url, cfg.baseUrl)

\* fetch(this.baseUrl + endpoint): the transport parses the concatenation.
fullEndpointBare(cfg, endpoint) == ParseAbsolute(cfg.baseUrl.v \o endpoint)

fullEndpoint(v, cfg, endpoint) ==
  CASE v = V_SrcSrc -> fullEndpointSrcSrc(cfg, endpoint)
    [] v = V_Part000 -> fullEndpointPart000(cfg, endpoint)
    [] OTHER -> fullEndpointBare(cfg, endpoint)

-----------------------------------------------------------------------------
(* Request options (RequestInit): an absent key is Undefined / NoHeaders.  *)

NoInit ==
  [method |-> Undefined, body |-> Undefined, headers |-> NoHeaders,
   signal |-> Undefined]

\* { ...a, ...b }: the keys b has replace a's.
Spread(a, b) ==
  [method |-> IF Present(b.method) THEN b.method ELSE a.method,
   body |-> IF Present(b.body) THEN b.body ELSE a.body,
   headers |-> IF Present(b.headers) THEN b.headers ELSE a.headers,
   signal |-> IF Present(b.signal) THEN b.signal ELSE a.signal]

\* The object a verb method hands to this.fetch.  In src/SimpleHttpService.ts
\* the verb's second or third parameter is the headers alone; in the other
\* versions it is a requestInit spread after the verb's own keys.
verbInit(v, method, body, requestInit) ==
  IF v = V_Src
    THEN [NoInit EXCEPT !.method = Str(method), !.headers = requestInit.headers,
                        !.body = body]
    ELSE Spread([NoInit EXCEPT !.method = Str(method), !.body = body],
                requestInit)

getInit(v, requestInit) == verbInit(v, "GET", Undefined, requestInit)
postInit(v, body, requestInit) == verbInit(v, "POST", body, requestInit)
putInit(v, body, requestInit) == verbInit(v, "PUT", body, requestInit)
patchInit(v, body, requestInit) == verbInit(v, "PATCH", body, requestInit)
deleteInit(v, requestInit) == verbInit(v, "DELETE", Undefined, requestInit)

\* The options object fetch hands to the transport, per version.
fetchOptionsSrcSrc(hk, requestInit) ==
  Spread([NoInit EXCEPT !.body = JSONstringify(requestInit.body),
                        !.headers = handleHeaders(V_SrcSrc, hk, requestInit.headers)],
         requestInit)

\* A fetch that copies the fields it knows by name instead of spreading
\* requestInit.
fetchOptionsPart000_NamesFields(hk, requestInit) ==
  [NoInit EXCEPT !.method = requestInit.method,
                 !.body = JSONstringify(requestInit.body),
                 !.headers = handleHeaders(V_Part000, hk, requestInit.headers)]

fetchOptionsPart000(hk, requestInit) ==
  Spread(requestInit,
         [NoInit EXCEPT !.body = JSONstringify(requestInit.body),
                        !.headers = handleHeaders(V_Part000, hk, requestInit.headers)])

fetchOptionsSrc(hk, options) ==
  Spread(options,
         [NoInit EXCEPT
            !.headers = PlainHeaders(SpreadEntries(handleHeaders(V_Src, hk, options.headers))),
            !.body = JSONstringify(options.body)])

fetchOptionsPart001(hk, requestInit) ==
  Spread([NoInit EXCEPT !.body = JSONstringify(requestInit.body),
                        !.headers = handleHeaders(V_Part001, hk, requestInit.headers)],
         requestInit)

fetchOptions(v, hk, requestInit) ==
  CASE v = V_SrcSrc -> fetchOptionsSrcSrc(hk, requestInit)
    [] v = V_Part000 -> fetchOptionsPart000(hk, requestInit)
    [] v = V_Src -> fetchOptionsSrc(hk, requestInit)
    [] OTHER -> fetchOptionsPart001(hk, requestInit)

-----------------------------------------------------------------------------
(* Responses, completions and outcomes.                                    *)

NoResponse == [status |-> 0, body |-> "", bodyUsed |-> FALSE]
ok(r) == r.status \in 200..299

\* The Response object of the current call, as a value.
ResponseRef == [t |-> "Response", v |-> "response"]

Throw(x) == [kind |-> "throw", value |-> x]
Return(x) == [kind |-> "return", value |-> x]

\* A handleResponse that reads the failed response's body before throwing,
\* as the bare versions do.
handleResponseConfig_ReadsBody(r) ==
  IF ~ok(r) THEN [step |-> "text", value |-> Undefined]
  ELSE [step |-> "json", value |-> Undefined]

\* handleResponse up to its first await: it throws, or it awaits the body.
handleResponseConfig(r) ==
  IF ~ok(r) THEN [step |-> "throw", value |-> ResponseRef]
  ELSE [step |-> "json", value |-> Undefined]

handleResponseBare(r) ==
  IF ~ok(r) THEN [step |-> "text", value |-> Undefined]
  ELSE [step |-> "json", value |-> Undefined]

handleResponse(v, r) ==
  IF v \in ConfigVariants THEN handleResponseConfig(r) ELSE handleResponseBare(r)

\* handleResponse after the body has arrived: response.json() parses it,
\* throw new Error(await response.text()) wraps it.
\* A handleResponse that awaits the body and forgets to return it.
handleResponseResume_DropsValue(step, r) ==
  IF step = "text" THEN Throw([t |-> "Error", v |-> r.body])
  ELSE Return(Undefined)

handleResponseResume(step, r) ==
  IF step = "text" THEN Throw([t |-> "Error", v |-> r.body])
  ELSE LET parsed == JSONparse(r.body)
       IN IF parsed.threw THEN Throw(parsed.value) ELSE Return(parsed.value)

\* A handleErrors that reports the failure and returns instead of throwing.
handleErrors_Swallows(e) == Return(Undefined)

\* A handleErrors that rethrows an Error as it is, without parsing its
\* message.
handleErrors_KeepsError(e) ==
  IF e.t = "string"
    THEN Throw(Obj("{\"message\":" \o Quote(toUpperCase(e.v)) \o "}"))
  ELSE Throw(e)

\* handleErrors ends by throwing err.
handleErrors(e) ==
  IF e.t = "string"
    THEN Throw(Obj("{\"message\":" \o Quote(toUpperCase(e.v)) \o "}"))
  ELSE IF instanceofError(e)
    THEN Throw(JSONparse(e.v).value)
  ELSE Throw(e)

\* A fetch that wraps its body in try/catch and calls handleErrors in every
\* version.
fetchCompletion_AlwaysCatches(v, c) ==
  IF c.kind = "throw" THEN handleErrors(c.value) ELSE c

\* How the body of fetch completes when the completion c arises inside it:
\* the bare versions wrap it in try/catch and call handleErrors; a catch
\* block that falls through makes the function return undefined.
fetchCompletion(v, c) ==
  IF v \in BareVariants /\ c.kind = "throw"
    THEN LET h == handleErrors(c.value)
         IN IF h.kind = "throw" THEN h ELSE Return(Undefined)
    ELSE c

\* A fetch that issues the request first and resolves headers and body
\* afterwards.
startSteps_FetchFirst(v) == <<"new URL", "fetch", "JSON.stringify", "handleHeaders">>

\* The steps fetch takes up to handing the request to the transport, in
\* the order the argument expressions are evaluated.
startSteps(v) ==
  CASE v \in ConfigVariants -> <<"new URL", "JSON.stringify", "handleHeaders", "fetch">>
    [] v = V_Src -> <<"handleHeaders", "JSON.stringify", "fetch">>
    [] OTHER -> <<"JSON.stringify", "handleHeaders", "fetch">>

\* The catch block of the bare versions runs when c is a throw.
catchSteps(v, c) ==
  IF v \in BareVariants /\ c.kind = "throw" THEN <<"handleErrors">> ELSE <<>>

NoOutcome == [state |-> "pending", value |-> Undefined]

\* The promise of an async function settles by its completion.
Settle(c) ==
  [state |-> IF c.kind = "throw" THEN "rejected" ELSE "resolved",
   value |-> c.value]

-----------------------------------------------------------------------------
(* Inputs.                                                                 *)

BaseUrl == <<Scheme, "h">>

\* baseEndpoint as configured: '' and '/a/'.
BaseEndpoints == {Str(<<>>), Str(<<Slash, "a", Slash>>)}

\* The configurations the TypeScript types admit: baseUrl is a string;
\* baseEndpoint is required in src/src/SimpleHttpService.ts and optional in
\* src/unnamed/part_000; the bare versions hold a baseUrl alone.
Configs(v) ==
  CASE v = V_SrcSrc ->
         [t : {"object"}, baseUrl : {Str(BaseUrl)}, baseEndpoint : BaseEndpoints]
    [] v = V_Part000 ->
         [t : {"object"}, baseUrl : {Str(BaseUrl)},
          baseEndpoint : BaseEndpoints \cup {Undefined}]
    [] OTHER -> [t : {"object"}, baseUrl : {Str(BaseUrl)}, baseEndpoint : {Undefined}]

\* new SimpleHttpService(): this.config is undefined.
NoConfig == [t |-> "undefined", baseUrl |-> Undefined, baseEndpoint |-> Undefined]

\* The README's same-domain configurations of the config-object versions:
\* no configuration object at all, or one without baseUrl.
SameDomainConfigs ==
  {NoConfig}
    \cup [t : {"object"}, baseUrl : {Undefined},
          baseEndpoint : {Undefined, Str(<<"a">>)}]

\* The README's ProtectedService extends the config-object class.
Hooks(v) == IF v \in ConfigVariants THEN {H_Base, H_Protected} ELSE {H_Base}

Bodies == {Obj(LoginBody), Str("raw")}

CallerHeaders ==
  {NoHeaders, PlainHeaders(XTrace :> "1"), PlainHeaders(ContentType :> TextPlain)}

AbortSignal == Obj("AbortSignal")

\* The options objects a caller passes: none, other headers, its own
\* Content-Type, its own method, an abort signal.
CallerOptions ==
  {NoInit} \cup {[NoInit EXCEPT !.headers = h] : h \in CallerHeaders}
    \cup {[NoInit EXCEPT !.method = Str("HEAD")],
          [NoInit EXCEPT !.signal = AbortSignal]}

\* What a caller passes as a verb's options: headers alone in
\* src/SimpleHttpService.ts, a requestInit without body in the others.
VerbOptions(v) ==
  IF v = V_Src
    THEN {[NoInit EXCEPT !.headers = h] : h \in CallerHeaders}
    ELSE CallerOptions

\* What a caller passes to fetch directly: a requestInit, with or without
\* a body.
FetchOptions ==
  {[o EXCEPT !.body = b] : o \in CallerOptions, b \in Bodies \cup {Undefined}}

Responses ==
  {[status |-> 200, body |-> LoginSuccess, bodyUsed |-> FALSE],
   [status |-> 200, body |-> "<html>", bodyUsed |-> FALSE],
   [status |-> 404, body |-> NotFoundBody, bodyUsed |-> FALSE],
   [status |-> 404, body |-> "Not Found", bodyUsed |-> FALSE]}

\* What the transport rejects with: a network failure, or the reason given
\* to AbortController.abort.
\* The reason a caller gave to AbortController.abort: a plain object.
AbortReason == Obj("{\"code\":20}")

\* What the transport rejects with: a network TypeError, a string, or the
\* caller's abort reason.
TransportErrors ==
  {[t |-> "TypeError", v |-> "Failed to fetch"], Str("timeout"), AbortReason}

InvalidURLError == [t |-> "TypeError", v |-> "Invalid URL"]

\* Reading a property of undefined, or calling a method on it.
PropertyTypeError == [t |-> "TypeError", v |-> "Cannot read properties of undefined"]

\* fetch reads this.config.baseEndpoint; src/src/SimpleHttpService.ts then
\* calls be.endsWith on it, src/unnamed/part_000 defaults it to ''.
readsUndefined(v, cfg) ==
  /\ v \in ConfigVariants
  /\ \/ cfg.t = "undefined"
     \/ v = V_SrcSrc /\ ~Present(cfg.baseEndpoint)

-----------------------------------------------------------------------------
(* The state machine.                                                      *)

NoCall == [verb |-> "", endpoint |-> <<>>, body |-> Undefined, requestInit |-> NoInit]
NoRequest == [url |-> InvalidURL, init |-> NoInit]

Init ==
  /\ variant \in Variants
  /\ hook \in Hooks(variant)
  /\ config \in Configs(variant)
  /\ pc = "idle"
  /\ call = NoCall
  /\ request = NoRequest
  /\ sent = 0
  /\ response = NoResponse
  /\ outcome = NoOutcome
  /\ rejection = Undefined
  /\ log = <<>>

\* this.fetch(endpoint, init) up to its first await: the URL is composed,
\* the options are built, and the request is handed to the transport.  A
\* URL that does not parse ends the config-object versions before the
\* transport is reached (new URL throws); the bare versions hand the string
\* to the transport, which rejects without a request.  A configuration
\* that is undefined where fetch reads it ends the call with a TypeError
\* before any of this.
fetchStart(endpoint, init) ==
  IF readsUndefined(variant, config)
    THEN /\ outcome' = Settle(Throw(PropertyTypeError))
         /\ pc' = "done"
         /\ log' = <<>>
         /\ UNCHANGED <<request, sent>>
    ELSE
      LET url == fullEndpoint(variant, config, endpoint)
          invalid == Throw(InvalidURLError)
      IN IF url.valid
           THEN /\ request' = [url |-> url, init |-> fetchOptions(variant, hook, init)]
                /\ sent' = sent + 1
                /\ pc' = "awaitFetch"
                /\ outcome' = NoOutcome
                /\ log' = startSteps(variant)
           ELSE /\ outcome' = Settle(fetchCompletion(variant, invalid))
                /\ pc' = "done"
                /\ log' = IF variant \in ConfigVariants
                             THEN <<"new URL">>
                             ELSE startSteps(variant) \o catchSteps(variant, invalid)
                /\ UNCHANGED <<request, sent>>

\* A call that stores the normalized baseEndpoint back into this.config
\* instead of keeping it in a local.
Invoke_WritesBack(verb, endpoint, body, requestInit, init) ==
  /\ pc = "idle"
  /\ call' = [verb |-> verb, endpoint |-> endpoint, body |-> body,
              requestInit |-> requestInit]
  /\ fetchStart(endpoint, init)
  /\ config' = [config EXCEPT
                  !.baseEndpoint = Str(removeSlashes(OrEmpty(config.baseEndpoint)))]
  /\ UNCHANGED <<variant, hook, response, rejection>>

Invoke(verb, endpoint, body, requestInit, init) ==
  /\ pc = "idle"
  /\ call' = [verb |-> verb, endpoint |-> endpoint, body |-> body,
              requestInit |-> requestInit]
  /\ fetchStart(endpoint, init)
  /\ UNCHANGED <<variant, hook, config, response, rejection>>

Get(endpoint, requestInit) ==
  Invoke("get", endpoint, Undefined, requestInit, getInit(variant, requestInit))

Post(endpoint, body, requestInit) ==
  Invoke("post", endpoint, body, requestInit, postInit(variant, body, requestInit))

Put(endpoint, body, requestInit) ==
  Invoke("put", endpoint, body, requestInit, putInit(variant, body, requestInit))

Patch(endpoint, body, requestInit) ==
  Invoke("patch", endpoint, body, requestInit, patchInit(variant, body, requestInit))

Delete(endpoint, requestInit) ==
  Invoke("delete", endpoint, Undefined, requestInit, deleteInit(variant, requestInit))

Fetch(endpoint, requestInit) ==
  Invoke("fetch", endpoint, Undefined, requestInit, requestInit)

\* The awaited transport promise rejects with e.
TransportReject(e) ==
  /\ pc = "awaitFetch"
  /\ outcome' = Settle(fetchCompletion(variant, Throw(e)))
  /\ rejection' = e
  /\ log' = log \o catchSteps(variant, Throw(e))
  /\ pc' = "done"
  /\ UNCHANGED <<variant, hook, config, call, request, sent, response>>

\* The awaited transport promise resolves with r; handleResponse runs to its
\* first await, or throws.
TransportRespond(r) ==
  /\ pc = "awaitFetch"
  /\ LET h == handleResponse(variant, r)
     IN IF h.step = "throw"
          THEN /\ response' = r
               /\ outcome' = Settle(fetchCompletion(variant, Throw(h.value)))
               /\ log' = log \o <<"handleResponse">>
                             \o catchSteps(variant, Throw(h.value))
               /\ pc' = "done"
          ELSE /\ response' = [r EXCEPT !.bodyUsed = TRUE]
               /\ outcome' = outcome
               /\ log' = log \o <<"handleResponse", "response." \o h.step>>
               /\ pc' = IF h.step = "json" THEN "awaitJson" ELSE "awaitText"
  /\ UNCHANGED <<variant, hook, config, call, request, sent, rejection>>

\* The awaited body arrives; handleResponse finishes and fetch settles.
BodyRead ==
  /\ pc \in {"awaitJson", "awaitText"}
  /\ LET step == IF pc = "awaitJson" THEN "json" ELSE "text"
         c == handleResponseResume(step, response)
     IN /\ outcome' = Settle(fetchCompletion(variant, c))
        /\ log' = log \o catchSteps(variant, c)
  /\ pc' = "done"
  /\ UNCHANGED <<variant, hook, config, call, request, sent, response, rejection>>

\* The caller has the outcome; the client is free for the next call.
CallReturns ==
  /\ pc = "done"
  /\ pc' = "idle"
  /\ call' = NoCall
  /\ request' = NoRequest
  /\ sent' = 0
  /\ response' = NoResponse
  /\ outcome' = NoOutcome
  /\ rejection' = Undefined
  /\ log' = <<>>
  /\ UNCHANGED <<variant, hook, config>>

Next ==
  \/ \E ep \in Paths, ri \in VerbOptions(variant) : Get(ep, ri)
  \/ \E ep \in Paths, b \in Bodies, ri \in VerbOptions(variant) : Post(ep, b, ri)
  \/ \E ep \in Paths, b \in Bodies, ri \in VerbOptions(variant) : Put(ep, b, ri)
  \/ \E ep \in Paths, b \in Bodies, ri \in VerbOptions(variant) : Patch(ep, b, ri)
  \/ \E ep \in Paths, ri \in VerbOptions(variant) : Delete(ep, ri)
  \/ \E ep \in Paths, ri \in FetchOptions : Fetch(ep, ri)
  \/ \E e \in TransportErrors : TransportReject(e)
  \/ \E r \in Responses : TransportRespond(r)
  \/ BodyRead
  \/ CallReturns

Spec == Init /\ [][Next]_vars

-----------------------------------------------------------------------------
(* What the properties read off a state.                                   *)

BodyVerbs == {"post", "put", "patch"}
Verbs == {"get", "post", "put", "patch", "delete"}

MethodOf(verb) ==
  CASE verb = "get" -> "GET"
    [] verb = "post" -> "POST"
    [] verb = "put" -> "PUT"
    [] verb = "patch" -> "PATCH"
    [] OTHER -> "DELETE"

\* The current call has handed its request to the transport.
Issued == sent >= 1

\* The headers as the transport reads them off the options it was given.
TransportHeaders == NewHeaders(request.init.headers).h

TransportHas(name, value) ==
  /\ LowerName(name) \in DOMAIN TransportHeaders
  /\ TransportHeaders[LowerName(name)] = value

\* The headers the caller supplied with the current call.
CallerSupplied == SpreadEntries(call.requestInit.headers)

\* The path has no empty segment: it starts with one "/", holds no "//",
\* and does not end in "/" (the root path "/" is allowed).
NoEmptySegment(path) ==
  \/ path = <<Slash>>
  \/ /\ Len(path) >= 2
     /\ path[1] = Slash
     /\ path[Len(path)] # Slash
     /\ \A i \in 1..(Len(path) - 1) : ~(path[i] = Slash /\ path[i + 1] = Slash)

\* The transport rejected: a request went out and no response came back.
TransportRejected == pc = "done" /\ sent = 1 /\ response = NoResponse

-----------------------------------------------------------------------------
(* Claims.                                                                 *)

\* C1: for every base endpoint and every non-empty call endpoint, with any
\* leading and trailing "/", the URL that fetch composes in the config-object
\* versions stays on the base URL's host and its path has exactly one "/"
\* between the segments and no empty segment.
C1_ComposedPathHasNoEmptySegment ==
  (Issued /\ variant \in ConfigVariants /\ call.endpoint # <<>>) =>
    /\ request.url.host = ParseAbsolute(config.baseUrl.v).host
    /\ NoEmptySegment(request.url.path)

\* C2: in the config-object versions, post, put and patch hand a structured
\* body to the transport as its JSON text, never as the raw object.
C2_ObjectBodySentAsJsonText ==
  (Issued /\ variant \in ConfigVariants /\ call.verb \in BodyVerbs
     /\ call.body.t = "object") =>
    request.init.body = Str(call.body.v)

\* C3: in every version, post, put and patch hand a body that is already a
\* string to the transport exactly as given.
C3_StringBodySentUnmodified ==
  (Issued /\ call.verb \in BodyVerbs /\ call.body.t = "string") =>
    request.init.body = call.body

\* C4: on the base client of the config-object versions, a call whose options
\* name no Content-Type header reaches the transport with
\* Content-Type: application/json.
C4_DefaultContentTypePresent ==
  (Issued /\ variant \in ConfigVariants /\ hook = H_Base
     /\ ContentType \notin DOMAIN CallerSupplied) =>
    TransportHas(ContentType, ApplicationJson)

\* C5: in the config-object versions, a call whose options carry a
\* Content-Type header reaches the transport with the caller's value.
C5_CallerContentTypeWins ==
  (Issued /\ variant \in ConfigVariants /\ ContentType \in DOMAIN CallerSupplied) =>
    TransportHas(ContentType, CallerSupplied[ContentType])

\* C6: every verb method transmits its own HTTP method, whatever options the
\* caller passes, a method field included.
C6_VerbFixesMethod ==
  (Issued /\ call.verb \in Verbs) => request.init.method = Str(MethodOf(call.verb))

\* C7: every call issues exactly one request to the transport: one is out
\* while the call is suspended, and one has been issued when it has settled.
C7_ExactlyOneRequestPerCall ==
  /\ sent <= 1
  /\ pc \in {"awaitFetch", "awaitJson", "awaitText", "done"} => sent = 1

\* No request follows the first one of a call, whatever its outcome.
NoSecondRequest == sent <= 1

\* C8 as stated, for every version: a non-2xx response makes the call reject
\* with the raw response object, its body not consumed.
C8_Non2xxRejectsWithRawResponse ==
  (pc = "done" /\ response # NoResponse /\ ~ok(response)) =>
    /\ outcome = [state |-> "rejected", value |-> ResponseRef]
    /\ ~response.bodyUsed

\* C8, amended to the config-object versions: there a non-2xx response makes
\* the call reject with the raw response object, its body not consumed.
C8_ConfigNon2xxRejectsWithRawResponse ==
  (pc = "done" /\ variant \in ConfigVariants /\ response # NoResponse
     /\ ~ok(response)) =>
    /\ outcome = [state |-> "rejected", value |-> ResponseRef]
    /\ ~response.bodyUsed

C8_Witness ==
  /\ pc = "done"
  /\ variant \in ConfigVariants
  /\ response.status = 404
  /\ outcome.state = "rejected"

\* C9: in every version a call whose transport rejected, whose response is
\* non-2xx or whose body does not decode ends rejected with an error, never
\* resolved.
C9_FailuresAlwaysReject ==
  (pc = "done" /\ Issued
     /\ (TransportRejected \/ ~ok(response) \/ JSONparse(response.body).threw)) =>
    /\ outcome.state = "rejected"
    /\ Present(outcome.value)

C9_Witness ==
  /\ pc = "done"
  /\ variant \in BareVariants
  /\ response.status = 404
  /\ outcome.state = "rejected"

\* C10: with the README's handleHeaders override, every request of the
\* config-object versions carries Authorization: Bearer X and
\* Content-Type: application/json; stated for the calls whose own headers
\* name neither of the two.
C10_OverrideHeadersReachTransport ==
  (Issued /\ hook = H_Protected
     /\ ContentType \notin DOMAIN CallerSupplied
     /\ Authorization \notin DOMAIN CallerSupplied) =>
    /\ TransportHas(Authorization, BearerToken)
    /\ TransportHas(ContentType, ApplicationJson)

\* C12: in every version and for every verb, a call whose 2xx response
\* carries a JSON object as its body ends resolved with exactly that object:
\* the body {"accessToken":"abc"} resolves to the object {accessToken: 'abc'}.
C12_Valid2xxResolvesWithParsedValue ==
  /\ (pc = "done" /\ ok(response) /\ response.body \in JsonObjectTexts) =>
       outcome = [state |-> "resolved", value |-> Obj(response.body)]
  /\ (pc = "done" /\ ok(response) /\ response.body = LoginSuccess) =>
       outcome.value = Obj("{\"accessToken\":\"abc\"}")

C12_Witness ==
  /\ pc = "done"
  /\ call.verb = "delete"
  /\ response.status = 200
  /\ response.body = LoginSuccess
  /\ outcome.state = "resolved"

\* The current call got a 2xx response whose body is not valid JSON.
Undecodable2xx ==
  pc = "done" /\ response # NoResponse /\ ok(response)
    /\ response.body \notin JsonObjectTexts

\* C13 as stated, for every version: a 2xx response whose body is not valid
\* JSON makes the call reject with the decoding failure of that body, the
\* SyntaxError response.json() raised.
C13_Invalid2xxRejectsWithDecodingFailure ==
  Undecodable2xx =>
    outcome = [state |-> "rejected", value |-> SyntaxError(response.body)]

\* C13, amended: a 2xx response whose body is not valid JSON makes the call
\* reject with a SyntaxError and never resolve; in the config-object
\* versions the SyntaxError is the decoding failure of the body itself.
C13_Invalid2xxRejects ==
  Undecodable2xx =>
    /\ outcome.state = "rejected"
    /\ outcome.value.t = "SyntaxError"
    /\ variant \in ConfigVariants => outcome.value = SyntaxError(response.body)

C13_Witness ==
  /\ Undecodable2xx
  /\ variant \in ConfigVariants
  /\ response.body = "<html>"
  /\ outcome.state = "rejected"

\* How many times the current call has taken the step.
Taken(step) == Cardinality({i \in DOMAIN log : log[i] = step})

\* C14: in the config-object versions a call whose transport rejected with
\* the failure E ends rejected with E itself, and handleResponse was not
\* invoked for it.
C14_TransportFailurePropagatesUnmodified ==
  (pc = "done" /\ variant \in ConfigVariants /\ Present(rejection)) =>
    /\ outcome = [state |-> "rejected", value |-> rejection]
    /\ Taken("handleResponse") = 0
    /\ response = NoResponse

C14_Witness ==
  /\ pc = "done"
  /\ variant \in ConfigVariants
  /\ rejection = Str("timeout")
  /\ outcome.state = "rejected"
  /\ Taken("fetch") = 1

\* C17: no step of any call, successful or failed, changes the configuration:
\* baseUrl and baseEndpoint keep the values given at construction.
C17_ConfigurationUnchanged == [][config' = config]_vars

C17_Witness ==
  /\ pc = "done"
  /\ Issued
  /\ outcome.state = "rejected"
  /\ config.baseUrl = Str(BaseUrl)
  /\ config.baseEndpoint = Str(<<Slash, "a", Slash>>)

\* The fields of an options object the client does not manage: every one
\* but headers and body.
PassThroughFields == {"method", "signal"}

\* C18: every field of the caller's options other than headers and body,
\* the abort signal for one, reaches the transport with exactly the value
\* the caller gave it.
C18_OtherOptionsPassThrough ==
  Issued =>
    \A f \in PassThroughFields :
      Present(call.requestInit[f]) => request.init[f] = call.requestInit[f]

C18_Witness ==
  /\ Issued
  /\ call.verb = "post"
  /\ call.requestInit.signal = AbortSignal
  /\ request.init.signal = AbortSignal

\* C19: a get or delete call made without a body issues exactly one
\* request, whose method is the verb's and whose body is absent.
C19_BodylessCallSendsNoBody ==
  (pc # "idle" /\ call.verb \in {"get", "delete"}
     /\ ~Present(call.requestInit.body)) =>
    /\ sent = 1
    /\ request.init.method = Str(MethodOf(call.verb))
    /\ request.init.body = Undefined

\* The request a get or delete call issues carries no body value: no JSON
\* text, "undefined" and "null" included.
BodylessRequestHasNoBody ==
  (Issued /\ call.verb \in {"get", "delete"}) => ~Present(request.init.body)

\* p without one "/" at its start and one at its end, where it has them.
StrippedOnce(p) ==
  LET lead == IF startsWith(p, Slash) THEN 1 ELSE 0
      trail == IF endsWith(p, Slash) THEN 1 ELSE 0
  IN SubSeq(p, 1 + lead, Len(p) - trail)

\* C20: path normalization removes exactly one leading and one trailing "/"
\* when present and nothing else: the endpoint of every call normalizes to
\* itself minus one "/" at each end where it has one, "/" normalizes to the
\* empty string, a path without a leading or trailing "/" to itself, and the
\* config-object versions compose the request's URL from the base endpoint
\* and the endpoint normalized so.
C20_NormalizationStripsOneSlashEachEnd ==
  pc # "idle" =>
    LET p == call.endpoint
        r == removeSlashes(p)
    IN /\ r = StrippedOnce(p)
       /\ Len(p) - 2 <= Len(r)
       /\ p = <<Slash>> => r = <<>>
       /\ (~startsWith(p, Slash) /\ ~endsWith(p, Slash)) => r = p
       /\ (Issued /\ variant \in ConfigVariants) =>
            request.url =
              NewURL(StrippedOnce(OrEmpty(config.baseEndpoint))
                       \o <<Slash>> \o StrippedOnce(p),
                     config.baseUrl)

C20_Witness ==
  /\ Issued
  /\ variant = V_Part000
  /\ call.endpoint = <<Slash, Slash, "a">>
  /\ removeSlashes(call.endpoint) = <<Slash, "a">>

-----------------------------------------------------------------------------
(* Same-domain usage.  The README constructs the config-object client      *)
(* without a configuration object, or without a baseUrl; the TypeScript    *)
(* types forbid both, the compiled class accepts them.  This specification *)
(* starts the config-object versions from those configurations as well as  *)
(* from the typed ones, and runs the same calls.                           *)

InitSameDomain ==
  /\ variant \in ConfigVariants
  /\ hook \in Hooks(variant)
  /\ config \in Configs(variant) \cup SameDomainConfigs
  /\ pc = "idle"
  /\ call = NoCall
  /\ request = NoRequest
  /\ sent = 0
  /\ response = NoResponse
  /\ outcome = NoOutcome
  /\ rejection = Undefined
  /\ log = <<>>

SpecSameDomain == InitSameDomain /\ [][Next]_vars

\* The call get('/a') with no options is under way or has settled.
PlainGet ==
  /\ pc # "idle"
  /\ call.verb = "get"
  /\ call.endpoint = <<Slash, "a">>
  /\ call.requestInit = NoInit

\* C15: on a client constructed with no configuration object, get('/a')
\* issues one GET request for the path /a and does not fail before the
\* transport is reached.
C15_NoConfigClientIsUsable ==
  (config = NoConfig /\ PlainGet) =>
    /\ sent = 1
    /\ request.init.method = Str("GET")
    /\ request.url.valid
    /\ request.url.path = <<Slash, "a">>

\* C16: on a client configured with a baseEndpoint ('a') and no baseUrl,
\* get('/a') issues its request for the path /a/a instead of failing while
\* the URL is constructed.
C16_NoBaseUrlResolvesAgainstOrigin ==
  (config.t = "object" /\ ~Present(config.baseUrl)
     /\ config.baseEndpoint = Str(<<"a">>) /\ PlainGet) =>
    /\ sent = 1
    /\ request.url.valid
    /\ request.url.path = <<Slash, "a", Slash, "a">>

-----------------------------------------------------------------------------
(* Concurrent calls.  Two calls are made on one client without waiting for *)
(* each other; the event loop runs one step of one call at a time, in any  *)
(* order.  The client's fields are the configuration alone; what a call    *)
(* holds between its steps are the locals of its own invocation of fetch   *)
(* and handleResponse.  In this specification pc, call, request, sent,     *)
(* response, outcome, rejection and log hold one value per call.           *)

CallIds == {"A", "B"}

\* The object the verb of call c hands to this.fetch.
initOf(v, c) ==
  CASE c.verb = "get" -> getInit(v, c.requestInit)
    [] c.verb = "post" -> postInit(v, c.body, c.requestInit)
    [] c.verb = "put" -> putInit(v, c.body, c.requestInit)
    [] c.verb = "patch" -> patchInit(v, c.body, c.requestInit)
    [] c.verb = "delete" -> deleteInit(v, c.requestInit)
    [] OTHER -> c.requestInit

\* The calls made concurrently: a get, a post with a body and a header, a
\* delete whose endpoint is all slashes, a fetch with a raw body.
ConcCalls ==
  {[verb |-> "get", endpoint |-> <<Slash, "a">>, body |-> Undefined,
    requestInit |-> NoInit],
   [verb |-> "post", endpoint |-> <<"a", Slash>>, body |-> Obj(LoginBody),
    requestInit |-> [NoInit EXCEPT !.headers = PlainHeaders(XTrace :> "1")]],
   [verb |-> "delete", endpoint |-> <<Slash, Slash, Slash>>, body |-> Undefined,
    requestInit |-> NoInit],
   [verb |-> "fetch", endpoint |-> <<"a">>, body |-> Undefined,
    requestInit |-> [NoInit EXCEPT !.body = Str("raw")]]}

InitConc ==
  /\ variant \in Variants
  /\ hook \in Hooks(variant)
  /\ config \in Configs(variant)
  /\ pc = [i \in CallIds |-> "idle"]
  /\ call = [i \in CallIds |-> NoCall]
  /\ request = [i \in CallIds |-> NoRequest]
  /\ sent = [i \in CallIds |-> 0]
  /\ response = [i \in CallIds |-> NoResponse]
  /\ outcome = [i \in CallIds |-> NoOutcome]
  /\ rejection = [i \in CallIds |-> Undefined]
  /\ log = [i \in CallIds |-> <<>>]

\* A handleResponse that reads the response from a field of the client,
\* which the call that was answered last has overwritten.
ownResponse_Shared(i) ==
  LET others == {j \in CallIds \ {i} : response[j] # NoResponse}
  IN IF others = {} THEN response[i] ELSE response[CHOOSE j \in others : TRUE]

\* The response call i reads its body from: the parameter of its own
\* invocation of handleResponse.
ownResponse(i) == response[i]

\* Call i is made: its verb runs this.fetch to the first await.
ConcCall(i, c) ==
  /\ pc[i] = "idle"
  /\ call' = [call EXCEPT ![i] = c]
  /\ LET url == fullEndpoint(variant, config, c.endpoint)
         invalid == Throw(InvalidURLError)
     IN IF url.valid
          THEN /\ request' = [request EXCEPT ![i] =
                                [url |-> url,
                                 init |-> fetchOptions(variant, hook, initOf(variant, c))]]
               /\ sent' = [sent EXCEPT ![i] = @ + 1]
               /\ pc' = [pc EXCEPT ![i] = "awaitFetch"]
               /\ log' = [log EXCEPT ![i] = startSteps(variant)]
               /\ UNCHANGED outcome
          ELSE /\ outcome' = [outcome EXCEPT ![i] =
                                Settle(fetchCompletion(variant, invalid))]
               /\ pc' = [pc EXCEPT ![i] = "done"]
               /\ log' = [log EXCEPT ![i] =
                            IF variant \in ConfigVariants
                              THEN <<"new URL">>
                              ELSE startSteps(variant) \o catchSteps(variant, invalid)]
               /\ UNCHANGED <<request, sent>>
  /\ UNCHANGED <<variant, hook, config, response, rejection>>

\* The transport rejects the request of call i with e.
ConcReject(i, e) ==
  /\ pc[i] = "awaitFetch"
  /\ outcome' = [outcome EXCEPT ![i] = Settle(fetchCompletion(variant, Throw(e)))]
  /\ rejection' = [rejection EXCEPT ![i] = e]
  /\ log' = [log EXCEPT ![i] = @ \o catchSteps(variant, Throw(e))]
  /\ pc' = [pc EXCEPT ![i] = "done"]
  /\ UNCHANGED <<variant, hook, config, call, request, sent, response>>

\* The transport answers the request of call i with r.
ConcRespond(i, r) ==
  /\ pc[i] = "awaitFetch"
  /\ LET h == handleResponse(variant, r)
     IN IF h.step = "throw"
          THEN /\ response' = [response EXCEPT ![i] = r]
               /\ outcome' = [outcome EXCEPT ![i] =
                                Settle(fetchCompletion(variant, Throw(h.value)))]
               /\ log' = [log EXCEPT ![i] =
                            @ \o <<"handleResponse">>
                              \o catchSteps(variant, Throw(h.value))]
               /\ pc' = [pc EXCEPT ![i] = "done"]
          ELSE /\ response' = [response EXCEPT ![i] = [r EXCEPT !.bodyUsed = TRUE]]
               /\ outcome' = outcome
               /\ log' = [log EXCEPT ![i] =
                            @ \o <<"handleResponse", "response." \o h.step>>]
               /\ pc' = [pc EXCEPT ![i] =
                           IF h.step = "json" THEN "awaitJson" ELSE "awaitText"]
  /\ UNCHANGED <<variant, hook, config, call, request, sent, rejection>>

\* The body call i awaits arrives.
ConcBodyRead(i) ==
  /\ pc[i] \in {"awaitJson", "awaitText"}
  /\ LET step == IF pc[i] = "awaitJson" THEN "json" ELSE "text"
         c == handleResponseResume(step, ownResponse(i))
     IN /\ outcome' = [outcome EXCEPT ![i] = Settle(fetchCompletion(variant, c))]
        /\ log' = [log EXCEPT ![i] = @ \o catchSteps(variant, c)]
  /\ pc' = [pc EXCEPT ![i] = "done"]
  /\ UNCHANGED <<variant, hook, config, call, request, sent, response, rejection>>

\* The caller of call i has its outcome.
ConcReturn(i) ==
  /\ pc[i] = "done"
  /\ pc' = [pc EXCEPT ![i] = "idle"]
  /\ call' = [call EXCEPT ![i] = NoCall]
  /\ request' = [request EXCEPT ![i] = NoRequest]
  /\ sent' = [sent EXCEPT ![i] = 0]
  /\ response' = [response EXCEPT ![i] = NoResponse]
  /\ outcome' = [outcome EXCEPT ![i] = NoOutcome]
  /\ rejection' = [rejection EXCEPT ![i] = Undefined]
  /\ log' = [log EXCEPT ![i] = <<>>]
  /\ UNCHANGED <<variant, hook, config>>

NextConc ==
  \/ \E i \in CallIds, c \in ConcCalls : ConcCall(i, c)
  \/ \E i \in CallIds, e \in TransportErrors : ConcReject(i, e)
  \/ \E i \in CallIds, r \in Responses : ConcRespond(i, r)
  \/ \E i \in CallIds : ConcBodyRead(i)
  \/ \E i \in CallIds : ConcReturn(i)

SpecConc == InitConc /\ [][NextConc]_vars

\* The outcome of a call made alone whose transport rejected with e, or
\* answered with r when e is undefined.
OutcomeAlone(v, r, e) ==
  IF Present(e) THEN Settle(fetchCompletion(v, Throw(e)))
  ELSE LET h == handleResponse(v, [r EXCEPT !.bodyUsed = FALSE])
       IN IF h.step = "throw"
            THEN Settle(fetchCompletion(v, Throw(h.value)))
            ELSE Settle(fetchCompletion(v, handleResponseResume(h.step, r)))

\* C11: two calls made concurrently on one client do not interfere, in any
\* interleaving of their steps: the request of each is the one built from
\* the configuration and its own arguments, and each settles with the
\* outcome of what the transport gave to its own request.
C11_ConcurrentCallsDoNotInterfere ==
  \A i \in CallIds :
    /\ sent[i] <= 1
    /\ sent[i] = 1 =>
         request[i] =
           [url |-> fullEndpoint(variant, config, call[i].endpoint),
            init |-> fetchOptions(variant, hook, initOf(variant, call[i]))]
    /\ (pc[i] = "done" /\ sent[i] = 1) =>
         outcome[i] = OutcomeAlone(variant, response[i], rejection[i])
    /\ pc[i] # "done" => outcome[i] = NoOutcome

C11_Witness ==
  /\ call["A"] # call["B"]
  /\ pc["A"] = "awaitJson"
  /\ pc["B"] = "awaitJson"
  /\ response["A"].body = LoginSuccess
  /\ response["B"].body = "<html>"

\* No base endpoint is configured: baseEndpoint is absent or ''.
NoBaseEndpoint == OrEmpty(config.baseEndpoint) = <<>>

\* C21: in src/unnamed/part_000 with no baseEndpoint configured, the URL
\* composed for every endpoint is the normalized endpoint resolved against
\* baseUrl: the call issues its request for exactly that URL.
C21_NoBaseEndpointJoinsDirectly ==
  (pc # "idle" /\ variant = V_Part000 /\ NoBaseEndpoint) =>
    LET expected == NewURL(removeSlashes(call.endpoint), config.baseUrl)
    IN expected.valid => (sent = 1 /\ request.url = expected)

\* Where the normalized endpoint keeps no leading "/", the URL composed
\* without a base endpoint is the normalized endpoint resolved against
\* baseUrl.
DirectJoinWithoutLeadingSlash ==
  (pc # "idle" /\ variant = V_Part000 /\ NoBaseEndpoint
     /\ ~startsWith(removeSlashes(call.endpoint), Slash)) =>
    /\ sent = 1
    /\ request.url = NewURL(removeSlashes(call.endpoint), config.baseUrl)

\* Every step a of the current call comes before every step b of it.
Before(a, b) ==
  \A i, j \in DOMAIN log : (log[i] = a /\ log[j] = b) => i < j

\* The awaits the current call has reached: the transport, then the body.
BodyAwaits == Taken("response.json") + Taken("response.text")
Suspensions == Taken("fetch") + BodyAwaits

\* The order of the steps of one call: the header hook and the body
\* serialization run once each before the request is issued; the call is
\* suspended on the transport right after issuing it; handleResponse runs
\* at most once, after the request was issued and only when the transport
\* has resolved; the body is awaited inside handleResponse; there are at
\* most two suspensions.
StepOrder ==
  /\ Before("handleHeaders", "fetch")
  /\ Before("JSON.stringify", "fetch")
  /\ Issued =>
       Taken("handleHeaders") = 1 /\ Taken("JSON.stringify") = 1
         /\ Taken("fetch") = 1
  /\ pc = "awaitFetch" => log[Len(log)] = "fetch"
  /\ Taken("handleResponse") <= 1
  /\ Before("fetch", "handleResponse")
  /\ Taken("handleResponse") = 1 =>
       Taken("fetch") = 1 /\ response # NoResponse /\ ~Present(rejection)
  /\ Before("handleResponse", "response.json")
  /\ Before("handleResponse", "response.text")
  /\ BodyAwaits >= 1 => Taken("handleResponse") = 1
  /\ pc \in {"awaitJson", "awaitText"} => BodyAwaits = 1
  /\ Suspensions <= 2

\* C22 as stated, for every version: the steps of a call keep the order
\* above, and the body is awaited only for a 2xx response.
C22_StepOrderBodyAwaitOnly2xx ==
  /\ StepOrder
  /\ BodyAwaits >= 1 => ok(response)

\* C22, amended: the steps of a call keep the order above in every version;
\* in the config-object versions the body is awaited only for a 2xx
\* response, in the bare-baseUrl versions the body text of a non-2xx
\* response is awaited as well.
C22_StepOrder ==
  /\ StepOrder
  /\ (variant \in ConfigVariants /\ BodyAwaits >= 1) => ok(response)
  /\ Taken("response.json") = 1 => ok(response)
  /\ Taken("response.text") = 1 => (variant \in BareVariants /\ ~ok(response))

C22_Witness ==
  /\ pc = "done"
  /\ variant \in ConfigVariants
  /\ outcome.state = "resolved"
  /\ log = <<"new URL", "JSON.stringify", "handleHeaders", "fetch",
             "handleResponse", "response.json">>

\* handleErrors ran for the current call, which has settled.
ErrorsHandled == pc = "done" /\ Taken("handleErrors") >= 1

\* C23: in the bare-baseUrl versions handleErrors always throws, and what it
\* throws goes by the kind of the failure: the string 'timeout' becomes the
\* object {message: 'TIMEOUT'}; an Error becomes what JSON.parse makes of
\* its message, so a non-2xx response with a JSON body rejects with the
\* parsed body, and a message that does not parse rejects with the
\* SyntaxError of the attempt; any other value is rethrown unchanged.
C23_HandleErrorsNormalizesByKind ==
  /\ Taken("handleErrors") >= 1 => variant \in BareVariants
  /\ (variant \in BareVariants /\ pc = "done" /\ outcome.state = "rejected") =>
       Taken("handleErrors") = 1
  /\ ErrorsHandled =>
       /\ outcome.state = "rejected"
       /\ rejection = Str("timeout") =>
            outcome.value = Obj("{\"message\":\"TIMEOUT\"}")
       /\ (response # NoResponse /\ ~ok(response)
             /\ response.body \in JsonObjectTexts) =>
            outcome.value = Obj(response.body)
       /\ (response # NoResponse /\ ~ok(response)
             /\ response.body \notin JsonObjectTexts) =>
            outcome.value = SyntaxError(response.body)
       /\ rejection.t = "TypeError" => outcome.value = SyntaxError(rejection.v)
       /\ rejection = AbortReason => outcome.value = AbortReason

C23_Witness ==
  /\ ErrorsHandled
  /\ response.status = 404
  /\ response.body = NotFoundBody
  /\ outcome = [state |-> "rejected", value |-> Obj(NotFoundBody)]

====
